---------------------------- MODULE Spec2Model ----------------------------
(***************************************************************************)
(* Model of dissecting_snowflakes.py: a snowflake identifier is normalised *)
(* to an integer of known bit width, its upper number_of_ts_bits bits are  *)
(* extracted, the epoch offset is added and the result is classified and   *)
(* decoded by guess_timestamp_format.                                      *)
(*                                                                         *)
(* Python integers are unbounded and the program's constants reach 6.4e17, *)
(* so an integer is a triple <<h, m, l>> of limbs in base 10^9 standing    *)
(* for h*10^18 + m*10^9 + l, with m, l in 0..10^9-1 and h signed (a        *)
(* negative number has a negative h).  Bit widths and shift counts are     *)
(* plain integers.                                                         *)
(***************************************************************************)
EXTENDS Integers, Sequences, FiniteSets, TLC

VARIABLES
    pc,                 \* the statement the script is at
    args_type,          \* args.type
    snowflake,          \* args.snowflake, the identifier given on the command line
    number_of_ts_bits,  \* None or Some(n)
    epoch_offset,       \* integer
    snowflake_length,   \* total bit width
    snowflake_int,      \* the identifier's value
    ts_bits,            \* the extracted field
    epoch_adjusted_ts,  \* the candidate
    human_ts,           \* what guess_timestamp_format returned first
    ts_name,            \* the encoding name it returned second
    tz_offset,          \* the host's local-time offset from UTC, in seconds
    outcome             \* "running", or how the run ended

vars == <<pc, args_type, snowflake, number_of_ts_bits, epoch_offset, snowflake_length,
          snowflake_int, ts_bits, epoch_adjusted_ts, human_ts, ts_name, tz_offset, outcome>>

-----------------------------------------------------------------------------
(* Unbounded integers in three limbs of base 10^9.                         *)

Base == 1000 * 1000 * 1000

RECURSIVE Pow(_, _)
Pow(b, n) == IF n = 0 THEN 1 ELSE b * Pow(b, n - 1)

Norm(h, m, l) ==
    LET m2 == m + (l \div Base)
    IN  <<h + (m2 \div Base), m2 % Base, l % Base>>

Zero == <<0, 0, 0>>

Small(n) == Norm(0, 0, n)

Add(x, y) == Norm(x[1] + y[1], x[2] + y[2], x[3] + y[3])

Sub(x, y) == Norm(x[1] - y[1], x[2] - y[2], x[3] - y[3])

Lt(x, y) ==
    \/ x[1] < y[1]
    \/ x[1] = y[1] /\ x[2] < y[2]
    \/ x[1] = y[1] /\ x[2] = y[2] /\ x[3] < y[3]

Le(x, y) == x = y \/ Lt(x, y)

IsNeg(x) == x[1] < 0

\* floor(x / d) for a divisor d of 10^9 (a power of 2 or of 10 up to 2^9, 10^9)
DivLimb(x, d) ==
    LET up == Base \div d
    IN  <<x[1] \div d,
          (x[2] \div d) + (x[1] % d) * up,
          (x[3] \div d) + (x[2] % d) * up>>

\* x mod d for such a divisor
ModLimb(x, d) == x[3] % d

\* x * d for such a divisor
MulLimb(x, d) ==
    LET up == Base \div d
    IN  <<x[1] * d + (x[2] \div up),
          (x[2] % up) * d + (x[3] \div up),
          (x[3] % up) * d>>

RECURSIVE DivPow2(_, _)
DivPow2(x, n) == IF n <= 9 THEN DivLimb(x, Pow(2, n)) ELSE DivPow2(DivLimb(x, 512), n - 9)

RECURSIVE MulPow2(_, _)
MulPow2(x, n) == IF n <= 9 THEN MulLimb(x, Pow(2, n)) ELSE MulPow2(MulLimb(x, 512), n - 9)

RECURSIVE DivPow10(_, _)
DivPow10(x, k) == IF k <= 9 THEN DivLimb(x, Pow(10, k)) ELSE DivPow10(DivLimb(x, Base), k - 9)

RECURSIVE MulPow10(_, _)
MulPow10(x, k) == IF k <= 9 THEN MulLimb(x, Pow(10, k)) ELSE MulPow10(MulLimb(x, Base), k - 9)

Pow2(n) == MulPow2(Small(1), n)


-----------------------------------------------------------------------------
(* Optional values: args.ts_bits is None unless --ts_bits is given.        *)

None == << >>

Some(n) == <<n>>

\* a name the script has not assigned yet
Unset == << >>

-----------------------------------------------------------------------------
(* Scheme selection, lines 23-42.                                          *)

TwitterEpoch == <<0, 1288, 834974657>>

DiscordEpoch == <<0, 1420, 70400000>>

\* the (number_of_ts_bits, epoch_offset) pair after the if/elif chain, given
\* the pair parsed from --ts_bits and --offset
SchemeProfile(type, bits, offset) ==
    CASE type = "twitter"  -> <<Some(42), TwitterEpoch>>
      [] type = "linkedin" -> <<Some(42), Zero>>
      [] type = "discord"  -> <<Some(42), DiscordEpoch>>
      [] type = "tiktok"   -> <<Some(32), Zero>>
      [] OTHER             -> <<bits, offset>>

\* Python's truth value of number_of_ts_bits: None and 0 are false
Truthy(bits) == bits # None /\ bits[1] # 0

-----------------------------------------------------------------------------
(* Identifier normalisation, lines 244-252.  The identifier is a text:     *)
(* int() is tried on it first, URL-safe base64 decoding on any failure.    *)

DefaultSnowflakeLength == 64

RECURSIVE FromBytesLittle(_)
\* the slip of reading the bytes least significant first
FromBytesLittle(bytes) ==
    IF bytes = << >> THEN Zero
    ELSE Add(MulPow2(FromBytesLittle(Tail(bytes)), 8), Small(Head(bytes)))

RECURSIVE FromBytesBig(_)
FromBytesBig(bytes) ==
    IF bytes = << >> THEN Zero
    ELSE Add(MulPow2(FromBytesBig(SubSeq(bytes, 1, Len(bytes) - 1)), 8),
             Small(bytes[Len(bytes)]))

\* A text is the sequence of its characters.  int(text) strips white space
\* from both ends, takes one sign, then decimal digits with single
\* underscores between them; anything else raises ValueError.
IsSpace(c) == c \in {" "}

RECURSIVE LStrip(_)
LStrip(text) ==
    IF text # << >> /\ IsSpace(Head(text)) THEN LStrip(Tail(text)) ELSE text

RECURSIVE RStrip(_)
RStrip(text) ==
    IF text # << >> /\ IsSpace(text[Len(text)])
    THEN RStrip(SubSeq(text, 1, Len(text) - 1))
    ELSE text

Strip(text) == RStrip(LStrip(text))

DecimalDigits == <<"0", "1", "2", "3", "4", "5", "6", "7", "8", "9">>

IsDecimalDigit(c) == \E i \in 1..10 : DecimalDigits[i] = c

DigitValue(c) == (CHOOSE i \in 1..10 : DecimalDigits[i] = c) - 1

\* digits, with an underscore only between two digits
IsDigitRun(body) ==
    /\ body # << >>
    /\ \A i \in 1..Len(body) :
         \/ IsDecimalDigit(body[i])
         \/ /\ body[i] = "_"
            /\ 1 < i /\ i < Len(body)
            /\ IsDecimalDigit(body[i - 1]) /\ IsDecimalDigit(body[i + 1])

RECURSIVE LimbValue(_)
\* the number a run of digits spells
LimbValue(digits) ==
    IF digits = << >> THEN 0
    ELSE 10 * LimbValue(SubSeq(digits, 1, Len(digits) - 1)) + DigitValue(digits[Len(digits)])

\* the value of a digit run: its digits, nine to a limb from the right
DigitRunValue(body) ==
    LET digits == SelectSeq(body, IsDecimalDigit)
        n == Len(digits)
    IN  Norm(LimbValue(SubSeq(digits, 1, n - 18)),
             LimbValue(SubSeq(digits, IF n > 18 THEN n - 17 ELSE 1, n - 9)),
             LimbValue(SubSeq(digits, IF n > 9 THEN n - 8 ELSE 1, n)))

\* int(text): Some(value), or None where int raises
ParseInt(text) ==
    LET t == Strip(text)
        signed == t # << >> /\ Head(t) \in {"+", "-"}
        body == IF signed THEN Tail(t) ELSE t
    IN  IF ~ IsDigitRun(body) THEN None
        ELSE IF signed /\ Head(t) = "-" THEN Some(Sub(Zero, DigitRunValue(body)))
        ELSE Some(DigitRunValue(body))

\* base64.urlsafe_b64decode: '-' and '_' stand for '+' and '/', then
\* binascii.a2b_base64 without validation
Base64Alphabet ==
    <<"A", "B", "C", "D", "E", "F", "G", "H", "I", "J", "K", "L", "M",
      "N", "O", "P", "Q", "R", "S", "T", "U", "V", "W", "X", "Y", "Z",
      "a", "b", "c", "d", "e", "f", "g", "h", "i", "j", "k", "l", "m",
      "n", "o", "p", "q", "r", "s", "t", "u", "v", "w", "x", "y", "z",
      "0", "1", "2", "3", "4", "5", "6", "7", "8", "9", "+", "/">>

UrlsafeTranslate(c) == IF c = "-" THEN "+" ELSE IF c = "_" THEN "/" ELSE c

\* the six bits a character stands for, 64 for a character outside the alphabet
TableA2b(c) ==
    IF \E i \in 1..64 : Base64Alphabet[i] = c
    THEN (CHOOSE i \in 1..64 : Base64Alphabet[i] = c) - 1
    ELSE 64

\* the characters of the model's texts that are not ASCII
NonAscii == {"é"}

\* one turn of a2b_base64's loop: a pad ends the input once it completes a
\* quad, a character outside the alphabet is skipped, any other adds six bits
A2bStep(st, c) ==
    IF st.done THEN st
    ELSE IF c = "="
    THEN IF st.quad_pos >= 2
         THEN [st EXCEPT !.pads = @ + 1, !.done = st.quad_pos + st.pads + 1 >= 4]
         ELSE st
    ELSE IF TableA2b(c) >= 64 THEN st
    ELSE LET this_ch == TableA2b(c)
         IN  IF st.quad_pos = 0
             THEN [st EXCEPT !.pads = 0, !.quad_pos = 1, !.leftchar = this_ch]
             ELSE IF st.quad_pos = 1
             THEN [st EXCEPT !.pads = 0, !.quad_pos = 2,
                             !.bin = Append(@, st.leftchar * 4 + (this_ch \div 16)),
                             !.leftchar = this_ch % 16]
             ELSE IF st.quad_pos = 2
             THEN [st EXCEPT !.pads = 0, !.quad_pos = 3,
                             !.bin = Append(@, st.leftchar * 16 + (this_ch \div 4)),
                             !.leftchar = this_ch % 4]
             ELSE [st EXCEPT !.pads = 0, !.quad_pos = 0,
                             !.bin = Append(@, st.leftchar * 64 + this_ch),
                             !.leftchar = 0]

RECURSIVE A2bLoop(_, _)
A2bLoop(st, ascii_data) ==
    IF ascii_data = << >> THEN st
    ELSE A2bLoop(A2bStep(st, Head(ascii_data)), Tail(ascii_data))

\* the bytes, or binascii.Error when the data characters stop inside a quad
A2bBase64(ascii_data) ==
    LET st == A2bLoop([quad_pos |-> 0, pads |-> 0, leftchar |-> 0,
                       bin |-> << >>, done |-> FALSE], ascii_data)
    IN  IF ~ st.done /\ st.quad_pos # 0
        THEN [ok |-> FALSE, exc |-> "binascii.Error"]
        ELSE [ok |-> TRUE, bytes |-> st.bin]

\* a str argument is encoded as ASCII first, which raises ValueError
UrlsafeB64decode(s) ==
    IF \E i \in 1..Len(s) : s[i] \in NonAscii
    THEN [ok |-> FALSE, exc |-> "ValueError"]
    ELSE A2bBase64([i \in 1..Len(s) |-> UrlsafeTranslate(s[i])])

\* lines 244-252: the value and the width, or the exception left unhandled
Normalization(sf) ==
    LET parsed == ParseInt(sf)
        decoded == UrlsafeB64decode(sf \o <<"=", "=">>)
    IN  IF parsed # None
        THEN [ok |-> TRUE, int |-> parsed[1], length |-> DefaultSnowflakeLength]
        ELSE IF decoded.ok
        THEN [ok |-> TRUE, int |-> FromBytesBig(decoded.bytes),
              length |-> Len(decoded.bytes) * 8]
        ELSE decoded

NormalizedInt(sf) == Normalization(sf).int

NormalizedLength(sf) == Normalization(sf).length

-----------------------------------------------------------------------------
(* Extraction, lines 265-281.                                              *)

TsSplitOffset(total_bits, n) == total_bits - n

\* snowflake_int >> (snowflake_length - number_of_ts_bits), for a shift count
\* that is not negative (Python raises ValueError on a negative one)
ShiftRightOneMore(value, count) == DivPow2(value, count + 1)

ShiftRight(value, count) == DivPow2(value, count)

\* the slip of shifting by the field's width instead of by what lies below it
ExtractTsBitsByWidth(value, total_bits, n) == DivPow2(value, n)

ExtractTsBits(value, total_bits, n) == ShiftRight(value, TsSplitOffset(total_bits, n))

\* the slip of leaving the offset out
EpochAdjustNone(raw, offset) == raw

EpochAdjust(raw, offset) == Add(raw, offset)

-----------------------------------------------------------------------------
(* Floating point.  A double is a pair [m, f] standing for m / 2^f, with   *)
(* |m| <= 2^53; an integer-valued double has f = 0.                        *)

Neg(x) == Sub(Zero, x)

Abs(x) == IF IsNeg(x) THEN Neg(x) ELSE x

IsOdd(x) == x[3] % 2 = 1

\* q, q+1 or the even one of them, as r/d is below, above or at one half
RoundHalfEven(q, r, d) ==
    LET twice == Add(r, r)
    IN  IF Lt(twice, d) THEN q
        ELSE IF Lt(d, twice) THEN Add(q, Small(1))
        ELSE IF IsOdd(q) THEN Add(q, Small(1)) ELSE q

\* x / 2^s rounded to the nearest integer, ties to even
RoundDivPow2(x, s) ==
    LET q == DivPow2(x, s)
    IN  RoundHalfEven(q, Sub(x, MulPow2(q, s)), Pow2(s))

\* x / 10^k rounded to the nearest integer, ties to even
RoundDivPow10(x, k) ==
    LET q == DivPow10(x, k)
    IN  RoundHalfEven(q, Sub(x, MulPow10(q, k)), MulPow10(Small(1), k))

\* the least s >= 0 with |x| < 2^(53+s): the bits a 53-bit significand drops
RECURSIVE ExcessBits(_, _)
ExcessBits(x, s) == IF Lt(Abs(x), Pow2(53 + s)) THEN s ELSE ExcessBits(x, s + 1)

\* float(x) for an integer x: the nearest double
PyFloat(x) ==
    LET s == ExcessBits(x, 0)
    IN  [m |-> IF s = 0 THEN x ELSE MulPow2(RoundDivPow2(x, s), s), f |-> 0]

\* the least f >= 0 with x * 2^f >= 2^52 * 10^k, for x > 0
RECURSIVE QuotientScale(_, _, _)
QuotientScale(x, k, f) ==
    IF Le(MulPow10(Pow2(52), k), MulPow2(x, f)) THEN f ELSE QuotientScale(x, k, f + 1)

\* the double nearest to x / 10^k, for an integer |x| < 2^53 * 10^k: what
\* float(x_as_double) / 1eK and the true division int / 10**k both round to
DivideByPow10(x, k) ==
    IF x = Zero THEN [m |-> Zero, f |-> 0]
    ELSE LET f == QuotientScale(Abs(x), k, 0)
             q == RoundDivPow10(MulPow2(Abs(x), f), k)
         IN  [m |-> IF IsNeg(x) THEN Neg(q) ELSE q, f |-> f]

\* d rounded to a 53-bit significand
Round53(d) ==
    LET s == ExcessBits(d.m, 0)
    IN  IF s = 0 THEN d
        ELSE IF s <= d.f THEN [m |-> RoundDivPow2(d.m, s), f |-> d.f - s]
        ELSE [m |-> MulPow2(RoundDivPow2(d.m, s), s - d.f), f |-> 0]

\* the double d - c for an integer c
FloatMinusInt(d, c) == Round53([m |-> Sub(d.m, MulPow2(c, d.f)), f |-> d.f])

\* the whole seconds of d, truncated toward zero (modf's integral part)
IntPart(d) ==
    IF IsNeg(d.m) THEN Neg(DivPow2(Neg(d.m), d.f)) ELSE DivPow2(d.m, d.f)

\* d seconds as microseconds, rounded half to even (the ROUND_HALF_EVEN of
\* utcfromtimestamp and fromtimestamp)
RoundToMicroseconds(d) == RoundDivPow2(MulPow10(d.m, 6), d.f)

-----------------------------------------------------------------------------
(* datetime.  An instant is a count of microseconds from 1970-01-01        *)
(* 00:00:00; datetime holds the years 1 to 9999.                           *)

\* 0001-01-01 00:00:00, in microseconds: -62135596800000000
MinInstant == <<-1, 937864403, 200000000>>

\* 9999-12-31 23:59:59.999999, in microseconds: 253402300799999999
MaxInstant == <<0, 253402300, 799999999>>

Representable(us) == Le(MinInstant, us) /\ Le(us, MaxInstant)

Ok(value, name) == [ok |-> TRUE, value |-> value, name |-> name]

Raise(exc) == [ok |-> FALSE, exc |-> exc]

\* a datetime object, as opposed to a text
DateTime(us) == [us |-> us]

\* the exception of a timestamp d that datetime cannot hold: OverflowError
\* when it does not fit time_t, else OSError where the platform's gmtime or
\* localtime rejects it and ValueError where the year check does
TimestampError(d, gmtime_fails) ==
    IF ~ Lt(Abs(IntPart(d)), Pow2(63)) THEN "OverflowError"
    ELSE IF gmtime_fails THEN "OSError" ELSE "ValueError"

\* datetime.datetime.utcfromtimestamp(d)
UtcFromTimestamp(d, gmtime_fails) ==
    LET us == RoundToMicroseconds(d)
    IN  IF Representable(us) THEN Ok(DateTime(us), "")
        ELSE Raise(TimestampError(d, gmtime_fails))

\* datetime.datetime.fromtimestamp(d): the host's local time
FromTimestamp(d, tz, gmtime_fails) ==
    LET us == Add(RoundToMicroseconds(d), MulPow10(Small(tz), 6))
    IN  IF Representable(us) THEN Ok(DateTime(us), "")
        ELSE Raise(TimestampError(d, gmtime_fails))

\* a number below 2^31 as a plain integer
ToInt(x) == IF IsNeg(x) THEN 0 - (Neg(x)[2] * Base + Neg(x)[3]) ELSE x[2] * Base + x[3]

\* the whole seconds of an instant, rounded down
WholeSeconds(us) == DivPow10(us, 6)

\* days from 1970-01-01 and second of the day: 86400 = 100 * 32 * 27
DayOf(seconds) == ToInt(DivLimb(DivLimb(seconds, 100), 32)) \div 27

SecondOfDay(seconds) ==
    LET hundreds == DivLimb(seconds, 100)
    IN  ((ToInt(DivLimb(hundreds, 32)) % 27) * 32 + ModLimb(hundreds, 32)) * 100
        + ModLimb(seconds, 100)

\* the proleptic Gregorian date <<year, month, day>> of a day number
CivilFromDays(days) ==
    LET z   == days + 719468
        era == z \div 146097
        doe == z - era * 146097
        yoe == (doe - doe \div 1460 + doe \div 36524 - doe \div 146096) \div 365
        doy == doe - (365 * yoe + yoe \div 4 - yoe \div 100)
        mp  == (5 * doy + 2) \div 153
        d   == doy - (153 * mp + 2) \div 5 + 1
        m   == IF mp < 10 THEN mp + 3 ELSE mp - 9
    IN  <<yoe + era * 400 + (IF m <= 2 THEN 1 ELSE 0), m, d>>

DigitChar(d) == <<"0", "1", "2", "3", "4", "5", "6", "7", "8", "9">>[d + 1]

RECURSIVE Digits(_, _)
\* the n decimal digits of v, zero padded, as characters
Digits(v, n) == IF n = 0 THEN << >> ELSE Append(Digits(v \div 10, n - 1), DigitChar(v % 10))

\* str(datetime): a text is the sequence of its characters,
\* YYYY-MM-DD HH:MM:SS, then '.' and six digits unless the microsecond is 0
Str(dt) ==
    LET seconds == WholeSeconds(dt.us)
        date    == CivilFromDays(DayOf(seconds))
        sod     == SecondOfDay(seconds)
        micro   == ModLimb(dt.us, 1000000)
    IN  Digits(date[1], 4) \o <<"-">> \o Digits(date[2], 2) \o <<"-">> \o Digits(date[3], 2)
        \o <<" ">> \o Digits(sod \div 3600, 2) \o <<":">> \o Digits((sod \div 60) % 60, 2)
        \o <<":">> \o Digits(sod % 60, 2)
        \o (IF micro = 0 THEN << >> ELSE <<".">> \o Digits(micro, 6))

-----------------------------------------------------------------------------
(* The decoders, lines 58-208.  Each returns Ok(value, name) or raises.    *)

\* the slip of slicing without looking for the zeros
TrimAlways(timestamp_string, number_to_trim) ==
    SubSeq(timestamp_string, 1, Len(timestamp_string) - number_to_trim)

IsDigit(c) == c \in {"0", "1", "2", "3", "4", "5", "6", "7", "8", "9"}

\* re.search(\.\d{6-n}0{n}$) finds a match exactly when the text ends in a
\* '.', 6-n digits and n zeros; the slice [:-n] then drops the last n
\* characters
TrimZeroFractionalSeconds(timestamp_string, number_to_trim) ==
    LET len == Len(timestamp_string)
    IN  IF /\ len >= 7
           /\ timestamp_string[len - 6] = "."
           /\ \A i \in (len - 5)..(len - number_to_trim) : IsDigit(timestamp_string[i])
           /\ \A i \in (len - number_to_trim + 1)..len : timestamp_string[i] = "0"
        THEN SubSeq(timestamp_string, 1, len - number_to_trim)
        ELSE timestamp_string

\* what a decoder returns: the value under the encoding's name, or the
\* exception the datetime call raised
Returning(r, value, name) == IF r.ok THEN Ok(value, name) ELSE r

\* 1970-01-01 to 1601-01-01, in seconds
WindowsEpochSeconds == <<0, 11, 644473600>>

\* 1970-01-01 to 0001-01-01, in 100 ns ticks: 621355968000000000
DateTimeEpochTicks == <<0, 621355968, 0>>

\* the slip of fromtimestamp for utcfromtimestamp, on a host one hour east
DecodeEpochSecondsLocal(seconds, gmtime_fails) ==
    LET r == FromTimestamp(PyFloat(seconds), 3600, gmtime_fails)
    IN  Returning(r, r.value, "Epoch seconds")

DecodeEpochSeconds(seconds, gmtime_fails) ==
    LET r == UtcFromTimestamp(PyFloat(seconds), gmtime_fails)
    IN  Returning(r, r.value, "Epoch seconds")

DecodeEpochCentiseconds(centiseconds, gmtime_fails) ==
    LET r == UtcFromTimestamp(DivideByPow10(PyFloat(centiseconds).m, 2), gmtime_fails)
    IN  Returning(r, TrimZeroFractionalSeconds(Str(r.value), 4), "Epoch centiseconds")

\* datetime(1970, 1, 1) + timedelta(milliseconds=float(milliseconds)): the
\* timedelta of an integer-valued double is exact, and the sum raises
\* OverflowError outside the years 1 to 9999
DecodeEpochMilliseconds(milliseconds) ==
    LET us == MulPow10(PyFloat(milliseconds).m, 3)
    IN  IF Representable(us)
        THEN Ok(TrimZeroFractionalSeconds(Str(DateTime(us)), 3), "Epoch milliseconds")
        ELSE Raise("OverflowError")

DecodeEpochTenMicroseconds(ten_microseconds, gmtime_fails) ==
    LET r == UtcFromTimestamp(DivideByPow10(PyFloat(ten_microseconds).m, 5), gmtime_fails)
    IN  Returning(r, TrimZeroFractionalSeconds(Str(r.value), 1),
                  "Epoch ten-microsecond increments")

DecodeEpochMicroseconds(microseconds, gmtime_fails) ==
    LET r == UtcFromTimestamp(DivideByPow10(PyFloat(microseconds).m, 6), gmtime_fails)
    IN  Returning(r, Str(r.value), "Epoch microseconds")

DecodeWebkit(microseconds, gmtime_fails) ==
    LET r == UtcFromTimestamp(FloatMinusInt(DivideByPow10(PyFloat(microseconds).m, 6),
                                            WindowsEpochSeconds), gmtime_fails)
    IN  Returning(r, r.value, "Webkit")

DecodeWindowsFiletime(intervals, gmtime_fails) ==
    LET r == UtcFromTimestamp(FloatMinusInt(DivideByPow10(PyFloat(intervals).m, 7),
                                            WindowsEpochSeconds), gmtime_fails)
    IN  Returning(r, r.value, "Windows FileTime")

DecodeDatetimeTicks(ticks, tz, gmtime_fails) ==
    LET seconds == DivideByPow10(Sub(ticks, DateTimeEpochTicks), 7)
        r == FromTimestamp(seconds, tz, gmtime_fails)
    IN  Returning(r, r.value, "DateTime ticks")

-----------------------------------------------------------------------------
(* guess_timestamp_format, lines 211-241.                                  *)

Between(lo, x, hi) == Le(lo, x) /\ Le(x, hi)

\* 130645440000000000 and 133801632000000000
WindowsFiletimeLow == <<0, 130645440, 0>>

WindowsFiletimeHigh == <<0, 133801632, 0>>

\* 635556672000000000 and 638712864000000000
DatetimeTicksLow == <<0, 635556672, 0>>

DatetimeTicksHigh == <<0, 638712864, 0>>

\* 13064544000000000 and 13380163200000000
WebkitLow == <<0, 13064544, 0>>

WebkitHigh == <<0, 13380163, 200000000>>

\* 1400070400000000 and 1735689600000000
EpochMicrosecondsLow == <<0, 1400070, 400000000>>

EpochMicrosecondsHigh == <<0, 1735689, 600000000>>

\* 140007040000000 and 173568960000000
EpochTenMicrosecondsLow == <<0, 140007, 40000000>>

EpochTenMicrosecondsHigh == <<0, 173568, 960000000>>

\* 1000070400000 and 1735689600000
EpochMillisecondsLow == <<0, 1000, 70400000>>

EpochMillisecondsHigh == <<0, 1735, 689600000>>

\* the slip of a FileTime test that reaches up over the DateTime ticks range
InWindowsFiletimeWide(timestamp) == Between(WindowsFiletimeLow, timestamp, DatetimeTicksHigh)

InWindowsFiletime(timestamp) == Between(WindowsFiletimeLow, timestamp, WindowsFiletimeHigh)

InDatetimeTicks(timestamp) == Between(DatetimeTicksLow, timestamp, DatetimeTicksHigh)

InWebkit(timestamp) == Between(WebkitLow, timestamp, WebkitHigh)

InEpochMicroseconds(timestamp) ==
    Between(EpochMicrosecondsLow, timestamp, EpochMicrosecondsHigh)

InEpochTenMicroseconds(timestamp) ==
    Between(EpochTenMicrosecondsLow, timestamp, EpochTenMicrosecondsHigh)

InEpochMilliseconds(timestamp) ==
    Between(EpochMillisecondsLow, timestamp, EpochMillisecondsHigh)

GuessTimestampFormat(timestamp, tz, gmtime_fails) ==
    IF InWindowsFiletime(timestamp) THEN DecodeWindowsFiletime(timestamp, gmtime_fails)
    ELSE IF InDatetimeTicks(timestamp) THEN DecodeDatetimeTicks(timestamp, tz, gmtime_fails)
    ELSE IF InWebkit(timestamp) THEN DecodeWebkit(timestamp, gmtime_fails)
    ELSE IF InEpochMicroseconds(timestamp) THEN DecodeEpochMicroseconds(timestamp, gmtime_fails)
    ELSE IF InEpochTenMicroseconds(timestamp)
         THEN DecodeEpochMicroseconds(timestamp, gmtime_fails)
    ELSE IF InEpochMilliseconds(timestamp) THEN DecodeEpochMilliseconds(timestamp)
    ELSE DecodeEpochSeconds(timestamp, gmtime_fails)

\* the branch of the chain that is taken, 1 to 6 in the order of the tests,
\* 7 for the final else
GuessBranch(timestamp) ==
    IF InWindowsFiletime(timestamp) THEN 1
    ELSE IF InDatetimeTicks(timestamp) THEN 2
    ELSE IF InWebkit(timestamp) THEN 3
    ELSE IF InEpochMicroseconds(timestamp) THEN 4
    ELSE IF InEpochTenMicroseconds(timestamp) THEN 5
    ELSE IF InEpochMilliseconds(timestamp) THEN 6
    ELSE 7

\* the range each of the six tests is written with
BranchRanges ==
    <<[low |-> WindowsFiletimeLow, high |-> WindowsFiletimeHigh],
      [low |-> DatetimeTicksLow, high |-> DatetimeTicksHigh],
      [low |-> WebkitLow, high |-> WebkitHigh],
      [low |-> EpochMicrosecondsLow, high |-> EpochMicrosecondsHigh],
      [low |-> EpochTenMicrosecondsLow, high |-> EpochTenMicrosecondsHigh],
      [low |-> EpochMillisecondsLow, high |-> EpochMillisecondsHigh]>>

\* the name returned by the decoder each branch calls
BranchNames ==
    <<"Windows FileTime", "DateTime ticks", "Webkit", "Epoch microseconds",
      "Epoch microseconds", "Epoch milliseconds", "Epoch seconds">>

-----------------------------------------------------------------------------
(* The command lines the model runs.                                       *)

\* the longest byte string an encoded identifier decodes to
MaxBytes == 2

\* --ts_bits takes every width from 1 to MaxManualBits, and those of WideBits
MaxManualBits == 4

ByteVals == {0, 1, 127, 128, 170, 255}

RECURSIVE ByteStrings(_)
ByteStrings(n) ==
    IF n = 0 THEN {<< >>}
    ELSE ByteStrings(n - 1) \cup
         {Append(b, v) : b \in {c \in ByteStrings(n - 1) : Len(c) = n - 1}, v \in ByteVals}

\* the value with field F above count low bits holding L
Compose(F, count, L) == Add(MulPow2(F, count), L)

RangeBounds ==
    {WindowsFiletimeLow, WindowsFiletimeHigh, DatetimeTicksLow, DatetimeTicksHigh,
     WebkitLow, WebkitHigh, EpochMicrosecondsLow, EpochMicrosecondsHigh,
     EpochTenMicrosecondsLow, EpochTenMicrosecondsHigh,
     EpochMillisecondsLow, EpochMillisecondsHigh}

\* 64-bit fields: the bounds of every range and their neighbours, odd values
\* inside the ranges, the last second datetime holds and the one after it,
\* and values past gmtime's and time_t's reach
Fields64 ==
    RangeBounds
    \cup {Sub(b, Small(1)) : b \in RangeBounds}
    \cup {Add(b, Small(1)) : b \in RangeBounds}
    \cup {Zero, <<0, 132000000, 1234567>>, <<0, 637000000, 5>>, <<0, 13200000, 1>>,
          <<0, 1500000, 123456>>, <<0, 150000, 12345>>,
          <<0, 253, 402300799>>, <<0, 253, 402300800>>, <<0, 100000000, 0>>,
          Pow2(63), Sub(Pow2(64), Small(1))}

\* 42-bit fields: 1541815603966, 411165025343 (a Twitter field of 2023), the
\* largest
Fields42 == {Zero, <<0, 1541, 815603966>>, <<0, 411, 165025343>>, Sub(Pow2(42), Small(1))}

\* 32-bit fields: 1735689600, the largest
Fields32 == {<<0, 1, 735689600>>, Sub(Pow2(32), Small(1))}

Lows(count) == {Zero, Small(1), Sub(Pow2(count), Small(1))}

DecimalValues ==
    Fields64
    \cup {Compose(F, 22, L) : F \in Fields42, L \in Lows(22)}
    \cup {Compose(F, 32, L) : F \in Fields32, L \in Lows(32)}
    \cup {Neg(Small(1)), Pow2(64)}

RECURSIVE NatText(_)
\* the decimal digits of a natural number, without padding
NatText(n) ==
    IF n < 10 THEN <<DigitChar(n)>> ELSE Append(NatText(n \div 10), DigitChar(n % 10))

\* the decimal literal of an integer, as typed on the command line
DecimalText(x) ==
    LET a == Abs(x)
        body == IF a[1] > 0 THEN NatText(a[1]) \o Digits(a[2], 9) \o Digits(a[3], 9)
                ELSE IF a[2] > 0 THEN NatText(a[2]) \o Digits(a[3], 9)
                ELSE NatText(a[3])
    IN  IF IsNeg(x) THEN <<"-">> \o body ELSE body

\* the URL-safe character of six bits
UrlsafeChar(v) == IF v = 62 THEN "-" ELSE IF v = 63 THEN "_" ELSE Base64Alphabet[v + 1]

RECURSIVE UrlsafeB64encode(_)
\* the URL-safe base64 text of a byte string, without padding
UrlsafeB64encode(bytes) ==
    IF bytes = << >> THEN << >>
    ELSE IF Len(bytes) = 1
    THEN <<UrlsafeChar(bytes[1] \div 4), UrlsafeChar((bytes[1] % 4) * 16)>>
    ELSE IF Len(bytes) = 2
    THEN <<UrlsafeChar(bytes[1] \div 4),
           UrlsafeChar((bytes[1] % 4) * 16 + (bytes[2] \div 16)),
           UrlsafeChar((bytes[2] % 16) * 4)>>
    ELSE <<UrlsafeChar(bytes[1] \div 4),
           UrlsafeChar((bytes[1] % 4) * 16 + (bytes[2] \div 16)),
           UrlsafeChar((bytes[2] % 16) * 4 + (bytes[3] \div 64)),
           UrlsafeChar(bytes[3] % 64)>>
         \o UrlsafeB64encode(SubSeq(bytes, 4, Len(bytes)))

RECURSIVE ToBytesBig(_, _)
\* the n low bytes of a value, most significant first
ToBytesBig(value, n) ==
    IF n = 0 THEN << >>
    ELSE Append(ToBytesBig(DivPow2(value, 8), n - 1), ModLimb(value, 256))

\* the values given as 8-byte encoded identifiers
EncodedValues ==
    {Zero, Small(1), Pow2(63), Sub(Pow2(64), Small(1)),
     <<0, 132000000, 1234567>>, <<1, 735689600, 5>>,
     Compose(<<0, 1541, 815603966>>, 22, Small(1)),
     Compose(<<0, 411, 165025343>>, 22, Sub(Pow2(22), Small(1)))}

EncodedSnowflakes == {UrlsafeB64encode(ToBytesBig(v, 8)) : v \in EncodedValues}

\* texts that are neither a decimal literal nor well-formed base64
MalformedSnowflakes == {<<"A">>, <<"!">>, <<"A", "A", "!">>}

Snowflakes ==
    {DecimalText(v) : v \in DecimalValues}
    \cup {UrlsafeB64encode(b) : b \in ByteStrings(MaxBytes)}
    \cup EncodedSnowflakes
    \cup MalformedSnowflakes

Types == {"twitter", "linkedin", "discord", "manual"}

WideBits == {8, 16, 32, 42, 64, 65}

TsBitsArgs == {None} \cup {Some(n) : n \in {-1, 0} \cup (1..MaxManualBits) \cup WideBits}

Offsets == {Zero, Neg(Small(5)), TwitterEpoch}

\* the host's offset from UTC, in seconds
TzOffsets == {0, 3600, -18000}

-----------------------------------------------------------------------------
(* The script, statement by statement.                                     *)

\* lines 16-21: the arguments are parsed
Init ==
    /\ pc = "scheme"
    /\ args_type \in Types
    /\ snowflake \in Snowflakes
    /\ number_of_ts_bits \in TsBitsArgs
    /\ epoch_offset \in Offsets
    /\ snowflake_length = 0
    /\ snowflake_int = Unset
    /\ ts_bits = Unset
    /\ epoch_adjusted_ts = Unset
    /\ human_ts = Unset
    /\ ts_name = ""
    /\ tz_offset = 0
    /\ outcome = "running"

\* lines 23-42
SelectScheme ==
    /\ pc = "scheme"
    /\ LET profile == SchemeProfile(args_type, number_of_ts_bits, epoch_offset)
       IN  /\ number_of_ts_bits' = profile[1]
           /\ epoch_offset' = profile[2]
           /\ IF args_type = "manual" /\ ~ Truthy(profile[1])
              THEN pc' = "done" /\ outcome' = "exit"
              ELSE pc' = "normalize" /\ outcome' = outcome
    /\ UNCHANGED <<args_type, snowflake, snowflake_length, snowflake_int, ts_bits,
                   epoch_adjusted_ts, human_ts, ts_name, tz_offset>>

\* lines 244-263
Normalize ==
    /\ pc = "normalize"
    /\ IF Normalization(snowflake).ok
       THEN /\ snowflake_int' = NormalizedInt(snowflake)
            /\ snowflake_length' = NormalizedLength(snowflake)
            /\ pc' = "extract"
            /\ outcome' = outcome
       ELSE /\ snowflake_int' = snowflake_int
            /\ snowflake_length' = DefaultSnowflakeLength
            /\ pc' = "done"
            /\ outcome' = Normalization(snowflake).exc
    /\ UNCHANGED <<args_type, snowflake, number_of_ts_bits, epoch_offset, ts_bits,
                   epoch_adjusted_ts, human_ts, ts_name, tz_offset>>

\* lines 265-277: a negative shift count raises ValueError at line 271, a
\* negative width in the format specification raises it at line 273
Extract ==
    /\ pc = "extract"
    /\ LET n == number_of_ts_bits[1]
       IN  IF TsSplitOffset(snowflake_length, n) < 0
           THEN /\ ts_bits' = ts_bits
                /\ pc' = "done"
                /\ outcome' = "ValueError"
           ELSE /\ ts_bits' = ExtractTsBits(snowflake_int, snowflake_length, n)
                /\ IF n < 0
                   THEN pc' = "done" /\ outcome' = "ValueError"
                   ELSE pc' = "adjust" /\ outcome' = outcome
    /\ UNCHANGED <<args_type, snowflake, number_of_ts_bits, epoch_offset, snowflake_length,
                   snowflake_int, epoch_adjusted_ts, human_ts, ts_name, tz_offset>>

\* lines 279-285
AddEpochOffset ==
    /\ pc = "adjust"
    /\ epoch_adjusted_ts' = EpochAdjust(ts_bits, epoch_offset)
    /\ pc' = "decode"
    /\ UNCHANGED <<args_type, snowflake, number_of_ts_bits, epoch_offset, snowflake_length,
                   snowflake_int, ts_bits, human_ts, ts_name, tz_offset, outcome>>

\* lines 287-291: OSError is caught and reported, any other exception ends
\* the run with a traceback
Decode ==
    /\ pc = "decode"
    /\ \E tz \in TzOffsets, gmtime_fails \in BOOLEAN :
         LET r == GuessTimestampFormat(epoch_adjusted_ts, tz, gmtime_fails)
         IN  /\ tz_offset' = tz
             /\ IF r.ok
                THEN human_ts' = r.value /\ ts_name' = r.name /\ outcome' = "printed"
                ELSE /\ UNCHANGED <<human_ts, ts_name>>
                     /\ outcome' = IF r.exc = "OSError" THEN "TS too big" ELSE r.exc
    /\ pc' = "done"
    /\ UNCHANGED <<args_type, snowflake, number_of_ts_bits, epoch_offset, snowflake_length,
                   snowflake_int, ts_bits, epoch_adjusted_ts>>

Next == SelectScheme \/ Normalize \/ Extract \/ AddEpochOffset \/ Decode

Spec == Init /\ [][Next]_vars

-----------------------------------------------------------------------------
(* Properties of the extraction.                                           *)

\* number_of_ts_bits, once the scheme is selected and it is an integer
Width == number_of_ts_bits[1]

\* total_bits >= ts_bits >= 1 and 0 <= value < 2^total_bits
ValidExtraction ==
    /\ pc \in {"adjust", "decode", "done"}
    /\ Truthy(number_of_ts_bits)
    /\ Width >= 1
    /\ snowflake_length >= Width
    /\ snowflake_int # Unset
    /\ Le(Zero, snowflake_int)
    /\ Lt(snowflake_int, Pow2(snowflake_length))

\* C1: whenever total_bits >= ts_bits >= 1 and 0 <= value < 2^total_bits, the
\* extracted field is produced and lies in [0, 2^ts_bits), and the candidate
\* is the field plus the epoch offset, so it lies in
\* [epoch_offset, epoch_offset + 2^ts_bits).
ExtractionRange ==
    ValidExtraction =>
        /\ ts_bits # Unset
        /\ ts_bits = DivPow2(snowflake_int, snowflake_length - Width)
        /\ Le(Zero, ts_bits)
        /\ Lt(ts_bits, Pow2(Width))
        /\ pc \in {"decode", "done"} =>
              /\ epoch_adjusted_ts # Unset
              /\ epoch_adjusted_ts = Add(ts_bits, epoch_offset)
              /\ Le(epoch_offset, epoch_adjusted_ts)
              /\ Lt(epoch_adjusted_ts, Add(epoch_offset, Pow2(Width)))

\* a 42-bit field of all ones was extracted and a nonzero offset added
ExtractionRangeWitness ==
    /\ ValidExtraction
    /\ pc = "decode"
    /\ Width = 42
    /\ ts_bits = Sub(Pow2(42), Small(1))
    /\ epoch_offset = TwitterEpoch

\* the fields of a width that the identifiers of the model are built from
FieldsOfWidth(n) ==
    IF n <= 4 THEN {Small(v) : v \in 0..(Pow(2, n) - 1)}
    ELSE IF n = 8 THEN {Small(v) : v \in ByteVals}
    ELSE IF n = 32 THEN Fields32
    ELSE IF n = 42 THEN Fields42
    ELSE IF n = 64 THEN Fields64
    ELSE {FromBytesBig(b) : b \in ByteStrings(MaxBytes)}

LowsOfWidth(count) ==
    IF count <= 4 THEN {Small(v) : v \in 0..(Pow(2, count) - 1)}
    ELSE Lows(count) \cup {Small(v) : v \in ByteVals}

\* C2: for total_bits >= ts_bits >= 1, a field F in [0, 2^ts_bits) and a low
\* part L in [0, 2^(total_bits - ts_bits)), extracting from
\* F * 2^(total_bits - ts_bits) + L gives the field F and the candidate
\* F + epoch_offset, whatever L is.
ExtractionRoundTrip ==
    (ValidExtraction /\ pc = "decode") =>
        LET count == snowflake_length - Width
            limit == Pow2(Width)
            below == Pow2(count)
        IN  \A F \in {G \in FieldsOfWidth(Width) : Lt(G, limit)} :
                \A L \in {M \in LowsOfWidth(count) : Lt(M, below)} :
                    snowflake_int = Compose(F, count, L)
                    => /\ ts_bits = F
                       /\ epoch_adjusted_ts = Add(F, epoch_offset)

\* the field 1541815603966 was recovered from above 22 low bits that are all
\* ones
ExtractionRoundTripWitness ==
    /\ ValidExtraction
    /\ pc = "decode"
    /\ Width = 42
    /\ snowflake_int = Compose(<<0, 1541, 815603966>>, 22, Sub(Pow2(22), Small(1)))
    /\ ts_bits = <<0, 1541, 815603966>>
    /\ epoch_adjusted_ts = Add(<<0, 1541, 815603966>>, epoch_offset)

-----------------------------------------------------------------------------
(* Properties of the classification.                                       *)

\* the run reached guess_timestamp_format and ended
Decoded == pc = "done" /\ epoch_adjusted_ts # Unset

InAnyRange(c) ==
    \/ InWindowsFiletime(c) \/ InDatetimeTicks(c) \/ InWebkit(c)
    \/ InEpochMicroseconds(c) \/ InEpochTenMicroseconds(c) \/ InEpochMilliseconds(c)

\* the six ranged rules of the classification table
RangedRules ==
    {[name |-> "DateTime ticks", low |-> DatetimeTicksLow, high |-> DatetimeTicksHigh],
     [name |-> "Windows FileTime", low |-> WindowsFiletimeLow, high |-> WindowsFiletimeHigh],
     [name |-> "WebKit", low |-> WebkitLow, high |-> WebkitHigh],
     [name |-> "Epoch microseconds", low |-> EpochMicrosecondsLow,
      high |-> EpochMicrosecondsHigh],
     [name |-> "Epoch ten-microsecond increments", low |-> EpochTenMicrosecondsLow,
      high |-> EpochTenMicrosecondsHigh],
     [name |-> "Epoch milliseconds", low |-> EpochMillisecondsLow,
      high |-> EpochMillisecondsHigh]}

\* the returned name is the rule's; the script writes WebKit as Webkit, which
\* is taken as the same name
Names(name, rule) == name = rule.name \/ (rule.name = "WebKit" /\ name = "Webkit")

\* C3: a candidate equal to the lower or the upper bound of one of the six
\* ranged rules is classified as that rule: the returned encoding name is that
\* rule's name.
InclusiveBounds ==
    Decoded =>
        \A rule \in RangedRules :
            epoch_adjusted_ts \in {rule.low, rule.high}
            => outcome = "printed" /\ Names(ts_name, rule)

\* the text of a Python string literal, character by character
Midnight2025 ==
    <<"2", "0", "2", "5", "-", "0", "1", "-", "0", "1", " ",
      "0", "0", ":", "0", "0", ":", "0", "0">>

\* manual mode, ts_bits = 32, offset = 0, extracted field 1735689600
SecondsScenario ==
    /\ Decoded
    /\ args_type = "manual"
    /\ Width = 32
    /\ epoch_offset = Zero
    /\ ts_bits = <<0, 1, 735689600>>

\* C4 as stated: every candidate that lies in none of the six ranges is
\* classified as Epoch seconds and decoded as that many seconds after
\* 1970-01-01 00:00:00 UTC.
SecondsFallbackAlways ==
    (Decoded /\ ~ InAnyRange(epoch_adjusted_ts)) =>
        /\ outcome = "printed"
        /\ ts_name = "Epoch seconds"
        /\ human_ts = DateTime(MulPow10(epoch_adjusted_ts, 6))

\* C4, amended: every candidate gets at most one rule, and the default exactly
\* when it lies in none of the six ranges; such a candidate is named Epoch
\* seconds and decoded as that many seconds after 1970-01-01 00:00:00 UTC when
\* that instant lies in the years 1 to 9999, and raises otherwise, returning
\* nothing; the field 1735689600 of the manual scenario decodes to
\* 2025-01-01 00:00:00.
SecondsFallback ==
    Decoded =>
        /\ outcome = "printed" =>
              (ts_name = "Epoch seconds" <=> ~ InAnyRange(epoch_adjusted_ts))
        /\ ~ InAnyRange(epoch_adjusted_ts) =>
              IF Representable(MulPow10(epoch_adjusted_ts, 6))
              THEN /\ outcome = "printed"
                   /\ ts_name = "Epoch seconds"
                   /\ human_ts = DateTime(MulPow10(epoch_adjusted_ts, 6))
              ELSE /\ outcome \in {"ValueError", "OverflowError", "TS too big"}
                   /\ human_ts = Unset
        /\ SecondsScenario =>
              /\ outcome = "printed"
              /\ ts_name = "Epoch seconds"
              /\ Str(human_ts) = Midnight2025

\* the manual scenario ran to its end with low bits that are not all zero
SecondsFallbackWitness ==
    /\ SecondsScenario
    /\ snowflake_int = Compose(<<0, 1, 735689600>>, 32, Small(1))
    /\ outcome = "printed"

\* Twitter, 64 bits, upper 42 bits 1541815603966
TwitterScenario ==
    /\ Decoded
    /\ args_type = "twitter"
    /\ snowflake_length = 64
    /\ ts_bits = <<0, 1541, 815603966>>

\* C5 as stated: the candidate of the Twitter scenario is 2830650578623, falls
\* in the Epoch milliseconds range and is decoded as that many milliseconds.
TwitterScenarioMilliseconds ==
    TwitterScenario =>
        /\ epoch_adjusted_ts = <<0, 2830, 650578623>>
        /\ InEpochMilliseconds(epoch_adjusted_ts)
        /\ outcome = "printed"
        /\ ts_name = "Epoch milliseconds"
        /\ human_ts = DecodeEpochMilliseconds(epoch_adjusted_ts).value

\* C5, amended: the candidate of the Twitter scenario is 2830650578623, which
\* lies above the Epoch milliseconds range (it ends at 1735689600000) and in
\* none of the six ranges, so guess_timestamp_format takes the seconds
\* default; 2830650578623 seconds is past the year 9999, so the decoder raises
\* and no timestamp is returned.
TwitterScenarioSeconds ==
    TwitterScenario =>
        /\ epoch_adjusted_ts = <<0, 2830, 650578623>>
        /\ Lt(EpochMillisecondsHigh, epoch_adjusted_ts)
        /\ ~ InAnyRange(epoch_adjusted_ts)
        /\ \A tz \in TzOffsets, gmtime_fails \in BOOLEAN :
              GuessTimestampFormat(epoch_adjusted_ts, tz, gmtime_fails)
                  = DecodeEpochSeconds(epoch_adjusted_ts, gmtime_fails)
        /\ outcome \in {"ValueError", "TS too big"}
        /\ human_ts = Unset

\* the Twitter scenario ran to its end from an identifier with low bits set
TwitterScenarioWitness ==
    /\ TwitterScenario
    /\ snowflake_int = Compose(<<0, 1541, 815603966>>, 22, Sub(Pow2(22), Small(1)))
    /\ outcome = "ValueError"

\* C6: every candidate of the ten-microsecond range is classified as Epoch
\* ten-microsecond increments and converted to the instant candidate / 100000
\* seconds after 1970-01-01 00:00:00 UTC.
TenMicrosecondRule ==
    (Decoded /\ InEpochTenMicroseconds(epoch_adjusted_ts)) =>
        /\ outcome = "printed"
        /\ ts_name = "Epoch ten-microsecond increments"
        /\ human_ts = TrimZeroFractionalSeconds(
                          Str(DateTime(MulPow10(epoch_adjusted_ts, 1))), 1)

\* an instant of whole microseconds lies within a microsecond of tenths
\* tenths-of-a-microsecond after 1970-01-01
WithinMicrosecond(us, tenths) ==
    /\ Le(MulPow10(us, 1), Add(tenths, Small(9)))
    /\ Le(tenths, Add(MulPow10(us, 1), Small(9)))

\* C7: a candidate classified as WebKit, Windows FileTime or DateTime ticks is
\* decoded to the UTC instant (candidate - origin offset) / units per second
\* after 1970-01-01 00:00:00 UTC (to the microsecond a datetime holds),
\* whatever the host's local-time offset is.
OriginEpochConversion ==
    (Decoded /\ outcome = "printed") =>
        /\ ts_name = "Webkit" =>
              human_ts.us = Sub(epoch_adjusted_ts, MulPow10(WindowsEpochSeconds, 6))
        /\ ts_name = "Windows FileTime" =>
              WithinMicrosecond(human_ts.us,
                                Sub(epoch_adjusted_ts, MulPow10(WindowsEpochSeconds, 7)))
        /\ ts_name = "DateTime ticks" =>
              WithinMicrosecond(human_ts.us, Sub(epoch_adjusted_ts, DateTimeEpochTicks))

-----------------------------------------------------------------------------
(* Properties of the error handling.                                       *)

\* ts_bits > total_bits, or ts_bits not positive, or missing
InvalidWidth ==
    \/ ~ Truthy(number_of_ts_bits)
    \/ Width < 0
    \/ Normalization(snowflake).ok /\ Width > NormalizedLength(snowflake)

\* C9: whenever ts_bits > total_bits or ts_bits is not positive (or is missing
\* in manual mode), the run ends in a reported error: no raw field, candidate
\* or timestamp is produced and no exception is left unhandled.
InvalidWidthReported ==
    (pc = "done" /\ InvalidWidth) =>
        /\ outcome = "exit"
        /\ ts_bits = Unset
        /\ epoch_adjusted_ts = Unset
        /\ human_ts = Unset

\* the instant the selected rule computes for a candidate is one datetime
\* holds: only the seconds default is handed candidates that can fall outside
InstantRepresentable(c) == InAnyRange(c) \/ Representable(MulPow10(c, 6))

\* C10: if the instant computed for a candidate is not representable, the
\* decode step ends in the reported too-large failure, never in an uncaught
\* exception, and a candidate whose instant is representable never yields that
\* failure.
OutOfRangeReported ==
    Decoded =>
        IF InstantRepresentable(epoch_adjusted_ts)
        THEN outcome = "printed"
        ELSE outcome = "TS too big"

-----------------------------------------------------------------------------
(* The decoders on their own: each is called once on a candidate.          *)

MaxSmallCandidate == 1100

DecoderInputs ==
    {Small(v) : v \in 0..MaxSmallCandidate}
    \cup RangeBounds
    \cup {Add(EpochMillisecondsHigh, Small(v)) : v \in {1, 10, 120, 999}}
    \cup {<<0, 253402, 300799999>>, <<0, 253402, 300800000>>,
          <<0, 253, 402300799>>, <<0, 253, 402300800>>,
          Neg(Small(1)), Neg(Small(86401))}

DecoderInit ==
    /\ pc = "call"
    /\ epoch_adjusted_ts \in DecoderInputs
    /\ args_type = "manual"
    /\ snowflake = <<"0">>
    /\ number_of_ts_bits = None
    /\ epoch_offset = Zero
    /\ snowflake_length = 0
    /\ snowflake_int = Unset
    /\ ts_bits = Unset
    /\ human_ts = Unset
    /\ ts_name = ""
    /\ tz_offset = 0
    /\ outcome = "running"

\* the state after a decoder returned r or raised
Returned(r, at) ==
    /\ pc = "call"
    /\ pc' = at
    /\ IF r.ok
       THEN human_ts' = r.value /\ ts_name' = r.name /\ outcome' = "printed"
       ELSE UNCHANGED <<human_ts, ts_name>> /\ outcome' = r.exc
    /\ UNCHANGED <<args_type, snowflake, number_of_ts_bits, epoch_offset, snowflake_length,
                   snowflake_int, ts_bits, epoch_adjusted_ts, tz_offset>>

CallDecodeEpochSeconds ==
    \E gmtime_fails \in BOOLEAN :
        Returned(DecodeEpochSeconds(epoch_adjusted_ts, gmtime_fails), "seconds")

CallDecodeEpochCentiseconds ==
    \E gmtime_fails \in BOOLEAN :
        Returned(DecodeEpochCentiseconds(epoch_adjusted_ts, gmtime_fails), "centiseconds")

CallDecodeEpochMilliseconds ==
    Returned(DecodeEpochMilliseconds(epoch_adjusted_ts), "milliseconds")

CallDecodeEpochTenMicroseconds ==
    \E gmtime_fails \in BOOLEAN :
        Returned(DecodeEpochTenMicroseconds(epoch_adjusted_ts, gmtime_fails),
                 "ten_microseconds")

DecoderNext ==
    \/ CallDecodeEpochSeconds
    \/ CallDecodeEpochCentiseconds
    \/ CallDecodeEpochMilliseconds
    \/ CallDecodeEpochTenMicroseconds

DecoderSpec == DecoderInit /\ [][DecoderNext]_vars

RECURSIVE FractionDigits(_)
\* the number of characters after the last '.' of a text, 0 without a '.'
FractionDigits(text) ==
    IF text = << >> THEN 0
    ELSE IF text[Len(text)] = "." THEN 0
    ELSE IF \A i \in 1..Len(text) : text[i] # "." THEN 0
    ELSE 1 + FractionDigits(SubSeq(text, 1, Len(text) - 1))

\* the text of the whole second an instant of milliseconds falls in
WholeSecondText(milliseconds) == Str(DateTime(MulPow10(DivPow10(milliseconds, 3), 6)))

\* C8: the text decode_epoch_milliseconds returns for a non-negative
\* candidate has at most 3 fractional digits: it is the whole second followed,
\* unless the candidate is a whole second, by '.' and the three millisecond
\* digits; what decode_epoch_seconds returns has no fractional digits; and
\* trimming a trimmed text again, by 3, by 4 or by 1 as its decoder did, leaves
\* it as it is.
UnitPrecisionTrimming ==
    /\ (pc = "milliseconds" /\ outcome = "printed" /\ ~ IsNeg(epoch_adjusted_ts)) =>
          /\ FractionDigits(human_ts) <= 3
          /\ human_ts = WholeSecondText(epoch_adjusted_ts)
                        \o (IF ModLimb(epoch_adjusted_ts, 1000) = 0 THEN << >>
                            ELSE <<".">> \o Digits(ModLimb(epoch_adjusted_ts, 1000), 3))
          /\ TrimZeroFractionalSeconds(human_ts, 3) = human_ts
    /\ (pc = "seconds" /\ outcome = "printed") =>
          /\ ModLimb(human_ts.us, 1000000) = 0
          /\ FractionDigits(Str(human_ts)) = 0
          /\ human_ts.us = MulPow10(epoch_adjusted_ts, 6)
    /\ (pc = "centiseconds" /\ outcome = "printed") =>
          TrimZeroFractionalSeconds(human_ts, 4) = human_ts
    /\ (pc = "ten_microseconds" /\ outcome = "printed") =>
          TrimZeroFractionalSeconds(human_ts, 1) = human_ts

\* a candidate of 120 milliseconds past a whole second came back with the
\* fraction .120: three zeros were trimmed and the millisecond's own kept
UnitPrecisionTrimmingWitness ==
    /\ pc = "milliseconds"
    /\ outcome = "printed"
    /\ epoch_adjusted_ts = Add(EpochMillisecondsHigh, Small(120))
    /\ FractionDigits(human_ts) = 3
    /\ SubSeq(human_ts, Len(human_ts) - 3, Len(human_ts)) = <<".", "1", "2", "0">>

-----------------------------------------------------------------------------
(* The script on short texts: every text of up to MaxTextLen characters    *)
(* of TextChars, the encoded byte strings, and 8-byte identifiers both     *)
(* encoded and as decimal literals.                                        *)

MaxTextLen == 3

TextChars == {"1", "7", "-", "_", "+", " ", "A", "!", "=", "é"}

RECURSIVE Texts(_)
Texts(n) ==
    IF n = 0 THEN {<< >>}
    ELSE Texts(n - 1) \cup
         {Append(t, c) : t \in {u \in Texts(n - 1) : Len(u) = n - 1}, c \in TextChars}

IdentifierTexts ==
    Texts(MaxTextLen)
    \cup {UrlsafeB64encode(b) : b \in ByteStrings(MaxBytes)}
    \cup EncodedSnowflakes
    \cup {DecimalText(v) : v \in EncodedValues \cup {Pow2(64)}}

NormalizerInit ==
    /\ pc = "scheme"
    /\ args_type \in {"manual", "twitter"}
    /\ snowflake \in IdentifierTexts
    /\ number_of_ts_bits = Some(8)
    /\ epoch_offset = Zero
    /\ snowflake_length = 0
    /\ snowflake_int = Unset
    /\ ts_bits = Unset
    /\ epoch_adjusted_ts = Unset
    /\ human_ts = Unset
    /\ ts_name = ""
    /\ tz_offset = 0
    /\ outcome = "running"

NormalizerSpec == NormalizerInit /\ [][Next]_vars

\* lines 244-252 have run
NormalizationDone ==
    \/ pc \in {"extract", "adjust", "decode"}
    \/ pc = "done" /\ outcome # "exit"

\* a character of the URL-safe base64 alphabet
IsUrlsafeDataChar(c) == TableA2b(UrlsafeTranslate(c)) < 64 /\ c \notin {"+", "/"}

\* URL-safe base64: data characters only, not one more than a multiple of
\* four of them, then no padding or the padding that completes the last quad
WellFormedBase64(text) ==
    \E k \in 0..2 :
        /\ k <= Len(text)
        /\ LET n == Len(text) - k
           IN  /\ \A i \in 1..n : IsUrlsafeDataChar(text[i])
               /\ \A i \in (n + 1)..Len(text) : text[i] = "="
               /\ n % 4 # 1
               /\ k = 0 \/ (n + k) % 4 = 0

\* neither a base-10 integer literal nor URL-safe base64
MalformedText(text) == ParseInt(text) = None /\ ~ WellFormedBase64(text)

\* C11: every text that is neither a valid base-10 integer literal nor a valid
\* URL-safe base64 string ends normalization in the MalformedIdentifier
\* outcome: no integer value is produced for it and no exception is left
\* unhandled.
MalformedIdentifierReported ==
    (NormalizationDone /\ MalformedText(snowflake)) =>
        /\ outcome = "MalformedIdentifier"
        /\ snowflake_int = Unset

RECURSIVE BigEndianValue(_)
\* the sum of byte i times 256^(n - i) over the n bytes
BigEndianValue(bytes) ==
    IF bytes = << >> THEN Zero
    ELSE Add(MulPow2(Small(Head(bytes)), 8 * (Len(bytes) - 1)), BigEndianValue(Tail(bytes)))

\* the 8-byte encoded identifier of a value
Encoded8(v) == UrlsafeB64encode(ToBytesBig(v, 8))

\* the raw field and the candidate of the run so far are those the pipeline
\* gives for a value and a width
SamePipeline(value, total_bits) ==
    /\ snowflake_int = value
    /\ snowflake_length = total_bits
    /\ ts_bits # Unset => ts_bits = ExtractTsBits(value, total_bits, Width)
    /\ epoch_adjusted_ts # Unset =>
           epoch_adjusted_ts = EpochAdjust(ExtractTsBits(value, total_bits, Width), epoch_offset)

\* C12: a text that parses as a base-10 integer is taken as that integer (the
\* literal of v gives v); any other text that decodes is taken as the
\* big-endian unsigned value of its n decoded bytes with total_bits = 8 * n;
\* and for an 8-byte encoded identifier the value, total_bits (64), raw field
\* and candidate are those the decimal literal of the same value gives.
EncodedIdentifierPipeline ==
    NormalizationDone =>
        /\ \A v \in EncodedValues \cup {Pow2(64)} :
               snowflake = DecimalText(v) =>
                   snowflake_int = v /\ snowflake_length = DefaultSnowflakeLength
        /\ \A b \in ByteStrings(MaxBytes) :
               (snowflake = UrlsafeB64encode(b) /\ ParseInt(snowflake) = None) =>
                   snowflake_int = BigEndianValue(b) /\ snowflake_length = 8 * Len(b)
        /\ \A v \in EncodedValues :
               snowflake = Encoded8(v) =>
                   /\ ParseInt(snowflake) = None
                   /\ snowflake_int = v
                   /\ snowflake_length = 64
                   /\ SamePipeline(NormalizedInt(DecimalText(v)),
                                   NormalizedLength(DecimalText(v)))

\* the Twitter run on the 8-byte encoding of 6466843354977009665 reached its
\* candidate, 1541815603966 + 1288834974657
EncodedIdentifierPipelineWitness ==
    /\ pc = "done"
    /\ args_type = "twitter"
    /\ snowflake = Encoded8(Compose(<<0, 1541, 815603966>>, 22, Small(1)))
    /\ Len(snowflake) = 11
    /\ snowflake_length = 64
    /\ ts_bits = <<0, 1541, 815603966>>
    /\ epoch_adjusted_ts = <<0, 2830, 650578623>>

\* C13: for every text normalization accepts, decimal literal or encoded
\* string, the value and the width it yields satisfy 0 <= value < 2^width
\* before extraction is performed.
IdentifierInvariant ==
    (NormalizationDone /\ Normalization(snowflake).ok) =>
        /\ Le(Zero, snowflake_int)
        /\ Lt(snowflake_int, Pow2(snowflake_length))

-----------------------------------------------------------------------------
(* The order of the classification.                                        *)

\* the six ranged rows of the classification table, in priority order; the
\* seventh rule, Epoch seconds, takes what no row holds
ClassificationTable ==
    <<[name |-> "DateTime ticks", low |-> <<0, 635556672, 0>>, high |-> <<0, 638712864, 0>>],
      [name |-> "Windows FileTime", low |-> <<0, 130645440, 0>>,
       high |-> <<0, 133801632, 0>>],
      [name |-> "WebKit", low |-> <<0, 13064544, 0>>, high |-> <<0, 13380163, 200000000>>],
      [name |-> "Epoch microseconds", low |-> <<0, 1400070, 400000000>>,
       high |-> <<0, 1735689, 600000000>>],
      [name |-> "Epoch ten-microsecond increments", low |-> <<0, 140007, 40000000>>,
       high |-> <<0, 173568, 960000000>>],
      [name |-> "Epoch milliseconds", low |-> <<0, 1000, 70400000>>,
       high |-> <<0, 1735, 689600000>>]>>

InRow(c, p) == Between(ClassificationTable[p].low, c, ClassificationTable[p].high)

\* the priority of the first row that holds the candidate, 7 when none does
TableScan(c) ==
    IF \E p \in 1..6 : InRow(c, p)
    THEN CHOOSE p \in 1..6 : InRow(c, p) /\ \A q \in 1..(p - 1) : ~ InRow(c, q)
    ELSE 7

\* the priority of the rule a branch of the chain stands for: the row with the
\* range the branch tests, the seventh rule for the final else
RuleOfBranch(branch) ==
    IF branch = 7 THEN 7
    ELSE CHOOSE p \in 1..6 :
             /\ ClassificationTable[p].low = BranchRanges[branch].low
             /\ ClassificationTable[p].high = BranchRanges[branch].high

\* C14: the six ranges of the table are pairwise disjoint, and for every
\* candidate the rule of the branch the chain takes (Windows FileTime tested
\* before DateTime ticks) is the rule a first-match scan of the table in
\* priority order selects; what the run prints is what that branch returns.
OrderIndependence ==
    /\ \A p \in 1..6 : \A q \in 1..6 :
           p # q => \/ Lt(ClassificationTable[p].high, ClassificationTable[q].low)
                    \/ Lt(ClassificationTable[q].high, ClassificationTable[p].low)
    /\ epoch_adjusted_ts # Unset =>
           RuleOfBranch(GuessBranch(epoch_adjusted_ts)) = TableScan(epoch_adjusted_ts)
    /\ (pc = "done" /\ outcome = "printed") =>
           ts_name = BranchNames[GuessBranch(epoch_adjusted_ts)]

\* a candidate at the lower bound of the DateTime ticks range was classified:
\* the chain took its second branch, the scan the table's first row
OrderIndependenceWitness ==
    /\ pc = "done"
    /\ outcome = "printed"
    /\ epoch_adjusted_ts = DatetimeTicksLow
    /\ GuessBranch(epoch_adjusted_ts) = 2
    /\ TableScan(epoch_adjusted_ts) = 1
    /\ ts_name = "DateTime ticks"

=============================================================================
